---- MODULE Spec2Model ----
(***************************************************************************)
(* A model of the CS110L exercises.  The first part models the DEET         *)
(* debugger (proj-1/deet): the session controller of debugger.rs, the       *)
(* traced process wrapper of inferior.rs, and the traced target process    *)
(* as the one concurrent actor.                                             *)
(***************************************************************************)
EXTENDS Integers, Sequences, FiniteSets, TLC

VARIABLES
    dpc,           \* position of the debugger: prompt, wait, bt, quit, aborted
    inferior,      \* Debugger.inferior: 0 is None, otherwise the child's pid
    break_points,  \* Debugger.break_points: the set of addresses
    procs,         \* OS state of every child spawned so far, by pid
    mem,           \* memory image of the newest child
    regs,          \* registers of the newest child: rip, rbp
    wstatus,       \* the status the next waitpid on the newest child returns
    last,          \* what the last command printed or returned
    launch,        \* what the last Inferior::new did
    hist,          \* what the target did since the last resume
    bt,            \* the state of the running backtrace walk
    kr,            \* what the last kill_and_reap did
    wb,            \* the write_byte round trip of the specification SpecWB
    bpt,           \* one call of Debugger::break_point (SpecBP)
    lb,            \* the balancebeam proxy (SpecLB)
    diff,          \* one call of lcs of rdiff (SpecLCS)
    dd,            \* one call of dedup of the warmup (SpecDedup)
    wt,            \* one call of Inferior::wait (SpecWait)
    pm,            \* one call of parallel_map of week6 (SpecPM)
    up,            \* the upstream servers of balancebeam (SpecUP)
    pd             \* one call of print_diff of rdiff (SpecPD)

vars == <<dpc, inferior, break_points, procs, mem, regs, wstatus, last,
          launch, hist, bt, kr, wb, bpt, lb, diff, dd, wt, pm, up, pd>>

dbgVars == <<dpc, inferior, break_points, procs, mem, regs, wstatus, last,
             launch, hist, bt, kr>>

\* the variables of the other programs, which the debugger never touches
moreVars == <<wt, pm, up, pd>>

otherVars == <<bpt, lb, diff, dd, moreVars>>

----------------------------------------------------------------------------
(* Bounds of the model. *)

\* the number of children one session may spawn
MaxRuns == 2
\* the largest address the write_byte round trip is tried at
MaxAddr == 17

----------------------------------------------------------------------------
(* Bytes and 64-bit words.  A word is the tuple of its 8 bytes, least       *)
(* significant first, so that the shifts and masks of write_byte are        *)
(* computed as the code computes them.                                      *)

WordSize == 8
TrapOpcode == 204
ByteMax == 255

RECURSIVE BitAnd(_, _)
BitAnd(x, y) ==
    IF x = 0 \/ y = 0 THEN 0
    ELSE (x % 2) * (y % 2) + 2 * BitAnd(x \div 2, y \div 2)

BitOr(x, y) == x + y - BitAnd(x, y)

BitNot(x) == ByteMax - x

\* a u8 or a small usize widened to u64
ToWord(n) == [i \in 1..WordSize |-> IF i = 1 THEN n % 256
                                     ELSE IF i = 2 THEN (n \div 256) % 256
                                     ELSE 0]

\* a u64 read as an address; an address of the model fits two bytes, any
\* larger value is one address outside every mapping
BigAddr == 256 * 256
WordVal(w) == IF \A i \in 3..WordSize : w[i] = 0 THEN w[1] + 256 * w[2]
              ELSE BigAddr

\* w << 8 * k and w >> 8 * k
ShlBytes(w, k) == [i \in 1..WordSize |-> IF i - k >= 1 THEN w[i - k] ELSE 0]
ShrBytes(w, k) == [i \in 1..WordSize |-> IF i + k <= WordSize THEN w[i + k] ELSE 0]

AndW(a, b) == [i \in 1..WordSize |-> BitAnd(a[i], b[i])]
OrW(a, b)  == [i \in 1..WordSize |-> BitOr(a[i], b[i])]
NotW(a)    == [i \in 1..WordSize |-> BitNot(a[i])]

\* -(size_of::<usize>() as isize) as usize, within the 16 address bits modelled
AlignMask == BigAddr - WordSize

align_addr_to_word(addr) == BitAnd(addr, AlignMask)

----------------------------------------------------------------------------
(* Target memory.  A memory image is a function from the mapped byte        *)
(* addresses to bytes; ptrace::read and ptrace::write move one word and     *)
(* fail on an address that is not mapped.                                   *)

Mapped(m, a) == \A i \in 0..(WordSize - 1) : (a + i) \in DOMAIN m

ptrace_read(m, a) == [i \in 1..WordSize |-> m[a + i - 1]]

ptrace_write(m, a, w) ==
    [x \in DOMAIN m |-> IF x >= a /\ x < a + WordSize THEN w[x - a + 1] ELSE m[x]]

\* the process is gone or the address is not mapped: the ? of lines 139, 147
WbErr(m) == [ok |-> FALSE, orig |-> 0, mem |-> m]

\* write_byte without the masking of line 141: the new byte is or-ed in
write_byte_nomask(m, alive, addr, val) ==
    LET aligned_addr == align_addr_to_word(addr)
        byte_offset  == addr - aligned_addr
    IN  IF ~alive \/ ~Mapped(m, aligned_addr) THEN WbErr(m)
        ELSE
          LET word         == ptrace_read(m, aligned_addr)
              orig_byte    == AndW(ShrBytes(word, byte_offset), ToWord(255))
              updated_word == OrW(word, ShlBytes(ToWord(val), byte_offset))
          IN  [ok |-> TRUE, orig |-> orig_byte[1],
               mem |-> ptrace_write(m, aligned_addr, updated_word)]

\* write_byte that counts the byte offset from the other end of the word
write_byte_bigendian(m, alive, addr, val) ==
    LET aligned_addr == align_addr_to_word(addr)
        byte_offset  == WordSize - 1 - (addr - aligned_addr)
    IN  IF ~alive \/ ~Mapped(m, aligned_addr) THEN WbErr(m)
        ELSE
          LET word         == ptrace_read(m, aligned_addr)
              orig_byte    == AndW(ShrBytes(word, byte_offset), ToWord(255))
              masked_word  == AndW(word, NotW(ShlBytes(ToWord(255), byte_offset)))
              updated_word == OrW(masked_word, ShlBytes(ToWord(val), byte_offset))
          IN  [ok |-> TRUE, orig |-> orig_byte[1],
               mem |-> ptrace_write(m, aligned_addr, updated_word)]

write_byte(m, alive, addr, val) ==
    LET aligned_addr == align_addr_to_word(addr)
        byte_offset  == addr - aligned_addr
    IN  IF ~alive \/ ~Mapped(m, aligned_addr) THEN WbErr(m)
        ELSE
          LET word         == ptrace_read(m, aligned_addr)
              orig_byte    == AndW(ShrBytes(word, byte_offset), ToWord(255))
              masked_word  == AndW(word, NotW(ShlBytes(ToWord(255), byte_offset)))
              updated_word == OrW(masked_word, ShlBytes(ToWord(val), byte_offset))
          IN  [ok |-> TRUE, orig |-> orig_byte[1],
               mem |-> ptrace_write(m, aligned_addr, updated_word)]

----------------------------------------------------------------------------
(* The target program: the traced child's code, stack and symbols.  The     *)
(* debugger is handed a binary; the model fixes a small one with a loop, a  *)
(* call and an exit.  Its instructions are one or two bytes long.           *)

\* the layout of the binary: the code and stack mappings, the entry stub
\* (start, without debug information), main with its call, its loop head,
\* the loop's branch and the exit, the function f and its return, the frame
\* bases of main and f, and an address (wild) that no mapping contains
Target == [codeLo |-> 8, codeHi |-> 31, stackLo |-> 64, stackHi |-> 95,
           start |-> 24, main |-> 8, call |-> 9, loop |-> 11, branch |-> 12,
           exit |-> 14, func |-> 16, ret |-> 17, wild |-> 40,
           mainFrame |-> 80, funcFrame |-> 64]

CodeLo == Target.codeLo
CodeHi == Target.codeHi
StackLo == Target.stackLo
StackHi == Target.stackHi
StartAddr == Target.start
MainAddr == Target.main
CallAddr == Target.call
LoopAddr == Target.loop
BranchAddr == Target.branch
ExitAddr == Target.exit
FuncAddr == Target.func
RetAddr == Target.ret
WildAddr == Target.wild
MainFrame == Target.mainFrame
FuncFrame == Target.funcFrame

NoInstr == [len |-> 0, kind |-> "none", tgt |-> {}]

Instr(a) ==
    CASE a = StartAddr  -> [len |-> 1, kind |-> "jmp",  tgt |-> {MainAddr}]
      [] a = MainAddr   -> [len |-> 1, kind |-> "nop",  tgt |-> {CallAddr}]
      [] a = CallAddr   -> [len |-> 2, kind |-> "call", tgt |-> {FuncAddr}]
      [] a = LoopAddr   -> [len |-> 1, kind |-> "nop",  tgt |-> {BranchAddr}]
      [] a = BranchAddr -> [len |-> 2, kind |-> "br",   tgt |-> {LoopAddr, ExitAddr}]
      [] a = ExitAddr   -> [len |-> 2, kind |-> "exit", tgt |-> {}]
      [] a = FuncAddr   -> [len |-> 1, kind |-> "nop",  tgt |-> {RetAddr}]
      [] a = RetAddr    -> [len |-> 1, kind |-> "ret",  tgt |-> {}]
      [] OTHER          -> NoInstr

InstrStarts == {a \in CodeLo..CodeHi : Instr(a).len > 0}

\* the bytes of the unpatched image: an opcode byte per instruction start, an
\* operand byte after it, padding elsewhere; none of them is the trap opcode
OrigByte(a) ==
    IF a \in InstrStarts THEN 80 + a
    ELSE IF a \in CodeLo..CodeHi THEN 144
    ELSE 0

FreshImage == [a \in (CodeLo..CodeHi) \cup (StackLo..StackHi) |-> OrigByte(a)]

FreshRegs == [rip |-> StartAddr, rbp |-> MainFrame]

\* the instruction at a is whole: a starts one and none of its bytes is patched
Intact(m, a) ==
    /\ a \in InstrStarts
    /\ \A i \in 0..(Instr(a).len - 1) : m[a + i] = OrigByte(a + i)

\* the nearest instruction start after a, where a run of garbage bytes may end
NextStart(a) ==
    LET later == {s \in InstrStarts : s > a}
    IN  IF later = {} THEN BigAddr
        ELSE CHOOSE s \in later : \A t \in later : s <= t

\* Option<usize>::None and Option<Line>::None
None == 0 - 1

\* DwarfData of the target: the function and the line of an address, the
\* address of a line and of a function
get_function_from_addr(a) ==
    IF a >= MainAddr /\ a < FuncAddr THEN "main"
    ELSE IF a >= FuncAddr /\ a < StartAddr THEN "f"
    ELSE "?"

get_line_from_addr(a) ==
    IF a >= MainAddr /\ a < StartAddr THEN a - MainAddr + 1 ELSE None

get_addr_for_line(line) ==
    IF line = LoopAddr - 1 THEN LoopAddr ELSE None

get_addr_for_function(name) ==
    IF name = <<"m", "a", "i", "n">> THEN MainAddr
    ELSE IF name = <<"f">> THEN FuncAddr
    ELSE None

----------------------------------------------------------------------------
(* Status, the result of Inferior::wait. *)

Stopped(sig, rip) == [kind |-> "Stopped", sig |-> sig, rip |-> rip, code |-> 0]
Exited(code)      == [kind |-> "Exited", sig |-> "", rip |-> 0, code |-> code]
Signaled(sig)     == [kind |-> "Signaled", sig |-> sig, rip |-> 0, code |-> 0]
\* Err(nix::Error) of wait
WaitErr           == [kind |-> "Err", sig |-> "", rip |-> 0, code |-> 0]
NoStatus          == [kind |-> "none", sig |-> "", rip |-> 0, code |-> 0]

\* what the first waitpid on a freshly spawned child may return: the exec
\* trap, a signal that reached the child before its exec, an exit, a kill,
\* or an error of the call
FirstStatuses ==
    {Stopped("SIGTRAP", StartAddr), Stopped("SIGINT", StartAddr),
     Exited(1), Signaled("SIGKILL"), WaitErr}

Pids == 1..MaxRuns

\* the children spawned so far; pids are handed out in order
Spawned == Cardinality({p \in Pids : procs[p] # "none"})

\* ptrace requests work on a child that is stopped under trace
Traceable(ps, h) == h # 0 /\ ps[h] = "stopped"

\* the child is a process of the system: stopped, running or not yet reaped
Exists(ps, h) == h # 0 /\ ps[h] \in {"stopped", "running", "zombie"}

Min(S) == CHOOSE a \in S : \A b \in S : a <= b

\* an install loop that stops after its first entry
InstallFirst(m, alive, bps) ==
    IF bps = {} THEN [ok |-> TRUE, mem |-> m]
    ELSE LET r == write_byte(m, alive, Min(bps), TrapOpcode)
         IN  [ok |-> r.ok, mem |-> r.mem]

\* for rid in break_point_list { write_byte(*rid, 0xcc).unwrap() }: ok is
\* FALSE when an unwrap panicked
RECURSIVE InstallAll(_, _, _)
InstallAll(m, alive, bps) ==
    IF bps = {} THEN [ok |-> TRUE, mem |-> m]
    ELSE LET a == Min(bps)
             r == write_byte(m, alive, a, TrapOpcode)
         IN  IF ~r.ok THEN [ok |-> FALSE, mem |-> m]
             ELSE InstallAll(r.mem, alive, bps \ {a})

\* Inferior::new without the test sig == SIGTRAP of line 67
inferior_new_anystop(first, bps) ==
    IF first.kind = "Stopped"
    THEN LET r == InstallAll(FreshImage, TRUE, bps)
         IN  [res |-> IF r.ok THEN "some" ELSE "panic", waits |-> 1,
              child |-> "stopped", mem |-> r.mem]
    ELSE [res |-> "fail", waits |-> 1,
          child |-> IF first.kind \in {"Exited", "Signaled"} THEN "reaped"
                    ELSE "stopped",
          mem |-> FreshImage]

\* Inferior::new after a successful spawn: one wait, then the breakpoints.
\* res is "some" (Some(inferior)), "fail" (None) or "panic"; child is the
\* state the new child is left in
inferior_new(first, bps) ==
    IF first.kind = "Stopped" /\ first.sig = "SIGTRAP"
    THEN LET r == InstallAll(FreshImage, TRUE, bps)
         IN  [res |-> IF r.ok THEN "some" ELSE "panic", waits |-> 1,
              child |-> "stopped", mem |-> r.mem]
    ELSE [res |-> "fail", waits |-> 1,
          child |-> IF first.kind \in {"Exited", "Signaled"} THEN "reaped"
                    ELSE "stopped",
          mem |-> FreshImage]

\* Inferior::kill_and_reap on the handle h: Child::kill fails on a process
\* that was reaped already, and expect panics
kill_and_reap(ps, h) ==
    IF Exists(ps, h) THEN [ok |-> TRUE, procs |-> [ps EXCEPT ![h] = "reaped"]]
    ELSE [ok |-> FALSE, procs |-> ps]

\* Inferior::cont without its install loop
cont_issue_noinstall(ps, h, m, bps) ==
    IF ~Traceable(ps, h) THEN [res |-> "cont", procs |-> ps, mem |-> m]
    ELSE [res |-> "resumed", procs |-> [ps EXCEPT ![h] = "running"], mem |-> m]

\* Inferior::cont up to ptrace::cont: res is "resumed", or the panic
\* "patch" (a write_byte failed) or "cont" (ptrace::cont failed)
cont_issue(ps, h, m, bps) ==
    LET r == InstallAll(m, Traceable(ps, h), bps)
    IN  IF ~r.ok THEN [res |-> "patch", procs |-> ps, mem |-> r.mem]
        ELSE IF ~Traceable(ps, h) THEN [res |-> "cont", procs |-> ps, mem |-> r.mem]
        ELSE [res |-> "resumed", procs |-> [ps EXCEPT ![h] = "running"],
              mem |-> r.mem]

----------------------------------------------------------------------------
(* The session: Debugger::new. *)

Last(cmd, status, msg, panic) ==
    [cmd |-> cmd, status |-> status, msg |-> msg, panic |-> panic]

NoLaunch == [pid |-> 0, first |-> NoStatus, waits |-> 0, res |-> "none"]
NoHist == [stopSite |-> None, stopCmd |-> "none",
           prevSite |-> None, prevCmd |-> "none", execPrev |-> FALSE]
NoBt == [rip |-> 0, rbp |-> 0, rip0 |-> 0, frames |-> <<>>, lines |-> <<>>,
         reads |-> 0]
NoKr == [called |-> FALSE, dead |-> FALSE, ok |-> TRUE]
NoWb == [stage |-> "off", addr |-> 0, mem0 |-> <<>>, mem |-> <<>>, orig |-> 0]

DbgInit ==
    /\ dpc = "prompt"
    /\ inferior = 0
    /\ break_points = {}
    /\ procs = [p \in Pids |-> "none"]
    /\ mem = FreshImage
    /\ regs = FreshRegs
    /\ wstatus = NoStatus
    /\ last = Last("none", NoStatus, "", "none")
    /\ launch = NoLaunch
    /\ hist = NoHist
    /\ bt = NoBt
    /\ kr = NoKr

\* the other programs are not started
NoBpt == [stage |-> "off", args |-> <<>>, table0 |-> {}, table |-> {}]
NoDiff == [stage |-> "off", seq1 |-> <<>>, seq2 |-> <<>>, c |-> <<>>]
NoDd == [stage |-> "off", v0 |-> <<>>, v |-> <<>>]
NoLb == [stage |-> "off"]

NoWt == [stage |-> "off"]
NoPm == [stage |-> "off"]
NoUp == [stage |-> "off"]
NoPd == [stage |-> "off"]

MoreIdle == wt = NoWt /\ pm = NoPm /\ up = NoUp /\ pd = NoPd

OthersIdle == bpt = NoBpt /\ lb = NoLb /\ diff = NoDiff /\ dd = NoDd /\ MoreIdle

Init == DbgInit /\ wb = NoWb /\ OthersIdle


----------------------------------------------------------------------------
(* Debugger::break_point.  A token is the sequence of its characters.       *)

Digit(c) ==
    CASE c = "0" -> 0 [] c = "1" -> 1 [] c = "2" -> 2 [] c = "3" -> 3
      [] c = "4" -> 4 [] c = "5" -> 5 [] c = "6" -> 6 [] c = "7" -> 7
      [] c = "8" -> 8 [] c = "9" -> 9 [] c = "a" -> 10 [] c = "b" -> 11
      [] c = "c" -> 12 [] c = "d" -> 13 [] c = "e" -> 14 [] c = "f" -> 15
      [] OTHER -> 99

\* usize::from_str_radix(text, radix).ok() and str::parse::<usize>().ok()
RECURSIVE from_str_radix_acc(_, _, _)
from_str_radix_acc(text, radix, acc) ==
    IF text = <<>> THEN acc
    ELSE IF Digit(Head(text)) >= radix THEN None
    ELSE from_str_radix_acc(Tail(text), radix, acc * radix + Digit(Head(text)))

from_str_radix(text, radix) ==
    IF text = <<>> THEN None ELSE from_str_radix_acc(text, radix, 0)

starts_with(text, prefix) ==
    Len(text) >= Len(prefix) /\ SubSeq(text, 1, Len(prefix)) = prefix

parse_address(addr) ==
    LET addr_without_0x == IF starts_with(addr, <<"0", "x">>)
                           THEN SubSeq(addr, 3, Len(addr)) ELSE addr
    IN  from_str_radix(addr_without_0x, 16)

\* break_point that reads every token as hex text first, with or without
\* the star in front of it
break_point_anyhex(args) ==
    IF Len(args) # 1 THEN [res |-> "usage", rip |-> None]
    ELSE LET text == IF starts_with(args[1], <<"*">>) THEN Tail(args[1])
                     ELSE args[1]
         IN  IF parse_address(text) # None
             THEN [res |-> "set", rip |-> parse_address(text)]
             ELSE IF starts_with(args[1], <<"*">>)
             THEN [res |-> "panic", rip |-> None]
             ELSE IF get_addr_for_function(args[1]) # None
             THEN [res |-> "set", rip |-> get_addr_for_function(args[1])]
             ELSE [res |-> "usage", rip |-> None]

\* what break_point does with its arguments: res is "usage" (nothing is
\* inserted), "panic" (an unwrap failed) or "set" (rip is inserted)
break_point(args) ==
    IF Len(args) # 1 THEN [res |-> "usage", rip |-> None]
    ELSE IF starts_with(args[1], <<"*">>)
    THEN LET rip == parse_address(Tail(args[1]))
         IN  [res |-> IF rip = None THEN "panic" ELSE "set", rip |-> rip]
    ELSE IF from_str_radix(args[1], 10) # None
    THEN LET rip == get_addr_for_line(from_str_radix(args[1], 10))
         IN  [res |-> IF rip = None THEN "panic" ELSE "set", rip |-> rip]
    ELSE IF get_addr_for_function(args[1]) # None
    THEN [res |-> "set", rip |-> get_addr_for_function(args[1])]
    ELSE [res |-> "usage", rip |-> None]

\* the argument vectors the break command is tried with
BreakArgs ==
    { <<>>,
      << <<"*", "0", "x", "b">> >>, << <<"*", "9">> >>,
      << <<"*", "0", "x", "2", "8">> >>, << <<"*", "z">> >>,
      << <<"1", "0">> >>, << <<"9", "9">> >>,
      << <<"z">> >> }

Abort(cmd, cause) ==
    /\ dpc' = "aborted"
    /\ last' = Last(cmd, NoStatus, "", cause)

CmdBreak(args) ==
    /\ dpc = "prompt"
    /\ LET r == break_point(args)
       IN  /\ dpc' = IF r.res = "panic" THEN "aborted" ELSE "prompt"
           /\ last' = Last("break", NoStatus,
                           IF r.res = "set" THEN "Set breakpoint"
                           ELSE IF r.res = "usage" THEN "Usage" ELSE "",
                           IF r.res = "panic" THEN "parse" ELSE "none")
           /\ break_points' = IF r.res = "set" THEN break_points \cup {r.rip}
                              ELSE break_points
           /\ hist' = IF r.res = "set" /\ r.rip \notin break_points
                      THEN NoHist ELSE hist
           /\ launch' = NoLaunch
           /\ bt' = NoBt
           /\ kr' = NoKr
    /\ UNCHANGED <<inferior, procs, mem, regs, wstatus, wb, otherVars>>


----------------------------------------------------------------------------
(* Debugger::run, one action per command.  A command that resumes the       *)
(* child ends at the blocking wait of Inferior::cont; WaitReturn is the     *)
(* rest of its handler.                                                     *)

\* DebuggerCommand::Run.  spawnOk: Command::spawn succeeded; first: what the
\* wait of Inferior::new returns
CmdRun(spawnOk, first) ==
    /\ dpc = "prompt"
    /\ Spawned < MaxRuns
    /\ LET k   == IF inferior # 0 THEN kill_and_reap(procs, inferior)
                  ELSE [ok |-> TRUE, procs |-> procs]
           pid == Spawned + 1
           n   == inferior_new(first, break_points)
           ps  == [k.procs EXCEPT ![pid] = n.child]
           c   == cont_issue(ps, pid, n.mem, break_points)
       IN  /\ kr' = IF inferior # 0
                    THEN [called |-> TRUE, dead |-> ~Exists(procs, inferior),
                          ok |-> k.ok]
                    ELSE NoKr
           /\ IF ~k.ok
              THEN /\ Abort("run", "kill")
                   /\ launch' = NoLaunch
                   /\ UNCHANGED <<inferior, procs, mem, regs, wstatus, hist>>
              ELSE IF ~spawnOk
              THEN /\ dpc' = "prompt"
                   /\ last' = Last("run", NoStatus, "Error starting subprocess", "none")
                   /\ procs' = k.procs
                   /\ launch' = [pid |-> 0, first |-> NoStatus, waits |-> 0,
                                 res |-> "fail"]
                   /\ UNCHANGED <<inferior, mem, regs, wstatus, hist>>
              ELSE /\ launch' = [pid |-> pid, first |-> first, waits |-> n.waits,
                                 res |-> n.res]
                   /\ regs' = FreshRegs
                   /\ wstatus' = NoStatus
                   /\ hist' = NoHist
                   /\ IF n.res = "fail"
                      THEN /\ dpc' = "prompt"
                           /\ last' = Last("run", NoStatus,
                                           "Error starting subprocess", "none")
                           /\ procs' = ps
                           /\ mem' = n.mem
                           /\ UNCHANGED inferior
                      ELSE IF n.res = "panic"
                      THEN /\ Abort("run", "patch")
                           /\ procs' = ps
                           /\ mem' = n.mem
                           /\ UNCHANGED inferior
                      ELSE /\ inferior' = pid
                           /\ procs' = c.procs
                           /\ mem' = c.mem
                           /\ IF c.res = "resumed"
                              THEN /\ dpc' = "wait"
                                   /\ last' = Last("run", NoStatus, "", "none")
                              ELSE Abort("run", c.res)
    /\ bt' = NoBt
    /\ UNCHANGED <<break_points, wb, otherVars>>

\* DebuggerCommand::Continue
CmdContinue ==
    /\ dpc = "prompt"
    /\ IF inferior = 0
       THEN /\ last' = Last("continue", NoStatus, "Error: there is not a inferior",
                            "none")
            /\ UNCHANGED <<dpc, procs, mem, wstatus, hist>>
       ELSE LET c == cont_issue(procs, inferior, mem, break_points)
            IN  /\ procs' = c.procs
                /\ mem' = c.mem
                /\ IF c.res = "resumed"
                   THEN /\ dpc' = "wait"
                        /\ last' = Last("continue", NoStatus, "", "none")
                        /\ wstatus' = NoStatus
                        /\ hist' = [stopSite |-> None, stopCmd |-> "none",
                                    prevSite |-> hist.stopSite,
                                    prevCmd |-> hist.stopCmd,
                                    execPrev |-> FALSE]
                   ELSE /\ Abort("continue", c.res)
                        /\ UNCHANGED <<wstatus, hist>>
    /\ launch' = NoLaunch
    /\ bt' = NoBt
    /\ kr' = NoKr
    /\ UNCHANGED <<inferior, break_points, regs, wb, otherVars>>

\* the breakpoint site of a stop: the address of the trap opcode the child
\* has just executed, or None
SiteOf(status, bps) ==
    IF status.kind = "Stopped" /\ status.sig = "SIGTRAP"
       /\ (status.rip - 1) \in bps
    THEN status.rip - 1 ELSE None

\* what is remembered of a stop at the breakpoint site `site`, returned by
\* the command cmd: the stop before it only when it was at the same site
StopHist(h, site, cmd) ==
    IF site = None THEN NoHist
    ELSE IF h.prevSite = site
    THEN [h EXCEPT !.stopSite = site, !.stopCmd = cmd]
    ELSE [stopSite |-> site, stopCmd |-> cmd, prevSite |-> None,
          prevCmd |-> "none", execPrev |-> FALSE]

\* a reset of self.inferior after every status, a stop included
HandleAfterAny(status, h) == 0

\* the reset of self.inferior without the Signaled arm
HandleAfterExit(status, h) ==
    IF status.kind = "Exited" THEN 0 ELSE h

\* match status { Exited(_) | Signaled(_) => self.inferior = None, _ => {} }
HandleAfter(status, h) ==
    IF status.kind \in {"Exited", "Signaled"} THEN 0 ELSE h

\* the wait of Inferior::cont returns and the handler of Run or Continue
\* finishes.  err: waitpid itself failed
WaitReturn(err) ==
    /\ dpc = "wait"
    /\ wstatus.kind # "none"
    /\ IF err
       THEN /\ dpc' = "prompt"
            /\ last' = Last(last.cmd, NoStatus, "Error: continue subprocess", "none")
            /\ UNCHANGED <<inferior, procs, wstatus, hist>>
       ELSE LET status == wstatus
            IN  /\ wstatus' = NoStatus
                /\ procs' = [procs EXCEPT ![inferior] =
                                IF @ = "zombie" THEN "reaped" ELSE @]
                /\ IF status.kind = "Stopped" /\ get_line_from_addr(status.rip) = None
                   THEN /\ Abort(last.cmd, "resolve")
                        /\ UNCHANGED <<inferior, hist>>
                   ELSE /\ dpc' = "prompt"
                        /\ last' = Last(last.cmd, status, "status", "none")
                        /\ inferior' = HandleAfter(status, inferior)
                        /\ hist' = StopHist(hist, SiteOf(status, break_points),
                                             last.cmd)
    /\ UNCHANGED <<break_points, mem, regs, launch, bt, kr, wb, otherVars>>

\* DebuggerCommand::Quit
CmdQuit ==
    /\ dpc = "prompt"
    /\ IF inferior = 0
       THEN /\ dpc' = "quit"
            /\ last' = Last("quit", NoStatus, "", "none")
            /\ kr' = NoKr
            /\ UNCHANGED procs
       ELSE LET k == kill_and_reap(procs, inferior)
            IN  /\ kr' = [called |-> TRUE, dead |-> ~Exists(procs, inferior),
                          ok |-> k.ok]
                /\ procs' = k.procs
                /\ IF k.ok
                   THEN /\ dpc' = "quit"
                        /\ last' = Last("quit", NoStatus, "", "none")
                   ELSE Abort("quit", "kill")
    /\ launch' = NoLaunch
    /\ bt' = NoBt
    /\ UNCHANGED <<inferior, break_points, mem, regs, wstatus, hist, wb, otherVars>>


\* DebuggerCommand::BackTrace: print_backtrace up to its loop
CmdBackTrace ==
    /\ dpc = "prompt"
    /\ IF inferior = 0
       THEN /\ last' = Last("backtrace", NoStatus,
                            "Error: there is not a inferior", "none")
            /\ bt' = NoBt
            /\ UNCHANGED dpc
       ELSE IF ~Traceable(procs, inferior)
       THEN /\ Abort("backtrace", "getregs")
            /\ bt' = NoBt
       ELSE /\ dpc' = "bt"
            /\ last' = Last("backtrace", NoStatus, "", "none")
            /\ bt' = [rip |-> regs.rip, rbp |-> regs.rbp, rip0 |-> regs.rip,
                      frames |-> <<>>, lines |-> <<>>, reads |-> 0]
    /\ launch' = NoLaunch
    /\ kr' = NoKr
    /\ UNCHANGED <<inferior, break_points, procs, mem, regs, wstatus, hist, wb, otherVars>>

\* the loop body of print_backtrace with the test for main moved after the
\* two reads
backtrace_iter_late(m, b) ==
    LET func_name == get_function_from_addr(b.rip)
        line      == get_line_from_addr(b.rip)
    IN  IF func_name = "?" \/ line = None
        THEN [res |-> "resolve", bt |-> b]
        ELSE IF ~Mapped(m, b.rbp + WordSize) \/ ~Mapped(m, b.rbp)
        THEN [res |-> "read", bt |-> [b EXCEPT !.frames = Append(@, func_name),
                               !.lines = Append(@, line)]]
        ELSE [res |-> IF func_name = "main" THEN "done" ELSE "next",
              bt |-> [b EXCEPT !.frames = Append(@, func_name),
                               !.lines = Append(@, line),
                               !.reads = @ + 2,
                               !.rip = WordVal(ptrace_read(m, b.rbp + WordSize)),
                               !.rbp = WordVal(ptrace_read(m, b.rbp))]]

\* the loop body of print_backtrace with the two reads exchanged: the next
\* rip is read at the frame base and the next frame base above it
backtrace_iter_swapped(m, b) ==
    LET func_name == get_function_from_addr(b.rip)
        line      == get_line_from_addr(b.rip)
    IN  IF func_name = "?" \/ line = None
        THEN [res |-> "resolve", bt |-> b]
        ELSE IF func_name = "main"
        THEN [res |-> "done", bt |-> [b EXCEPT !.frames = Append(@, func_name),
                                               !.lines = Append(@, line)]]
        ELSE IF ~Mapped(m, b.rbp + WordSize) \/ ~Mapped(m, b.rbp)
        THEN [res |-> "read", bt |-> [b EXCEPT !.frames = Append(@, func_name),
                                               !.lines = Append(@, line)]]
        ELSE [res |-> "next",
              bt |-> [b EXCEPT !.frames = Append(@, func_name),
                               !.lines = Append(@, line),
                               !.reads = @ + 2,
                               !.rip = WordVal(ptrace_read(m, b.rbp)),
                               !.rbp = WordVal(ptrace_read(m, b.rbp + WordSize))]]

\* one iteration of the loop of print_backtrace: res is "done" (the function
\* is main, nothing is read), "next", or the panic of an unwrap: "resolve"
\* (no function or line for rip) or "read" (a ptrace::read failed)
backtrace_iter(m, b) ==
    LET func_name == get_function_from_addr(b.rip)
        line      == get_line_from_addr(b.rip)
    IN  IF func_name = "?" \/ line = None
        THEN [res |-> "resolve", bt |-> b]
        ELSE IF func_name = "main"
        THEN [res |-> "done", bt |-> [b EXCEPT !.frames = Append(@, func_name),
                               !.lines = Append(@, line)]]
        ELSE IF ~Mapped(m, b.rbp + WordSize) \/ ~Mapped(m, b.rbp)
        THEN [res |-> "read", bt |-> [b EXCEPT !.frames = Append(@, func_name),
                               !.lines = Append(@, line)]]
        ELSE [res |-> "next",
              bt |-> [b EXCEPT !.frames = Append(@, func_name),
                               !.lines = Append(@, line),
                               !.reads = @ + 2,
                               !.rip = WordVal(ptrace_read(m, b.rbp + WordSize)),
                               !.rbp = WordVal(ptrace_read(m, b.rbp))]]

BtStep ==
    /\ dpc = "bt"
    /\ LET r == backtrace_iter(mem, bt)
       IN  /\ bt' = r.bt
           /\ IF r.res = "next" THEN UNCHANGED <<dpc, last>>
              ELSE IF r.res = "done"
              THEN /\ dpc' = "prompt"
                   /\ last' = Last("backtrace", NoStatus, "frames", "none")
              ELSE Abort("backtrace", r.res)
    /\ UNCHANGED <<inferior, break_points, procs, mem, regs, wstatus, launch,
                   hist, kr, wb, otherVars>>

----------------------------------------------------------------------------
(* The traced child, running between ptrace::cont and its next stop.        *)

Running == inferior # 0 /\ procs[inferior] = "running"

InCode(a) == a >= CodeLo /\ a <= CodeHi

Stop(sig, rip) ==
    /\ procs' = [procs EXCEPT ![inferior] = "stopped"]
    /\ wstatus' = Stopped(sig, rip)

\* the child executes a trap opcode: it stops with rip past the opcode
TargetTrap ==
    /\ Running
    /\ InCode(regs.rip) /\ mem[regs.rip] = TrapOpcode
    /\ regs' = [regs EXCEPT !.rip = @ + 1]
    /\ Stop("SIGTRAP", regs.rip + 1)
    /\ UNCHANGED <<dpc, inferior, break_points, mem, last, launch, hist, bt, kr, wb, otherVars>>

\* the child executes the whole instruction at rip
TargetExec ==
    /\ Running
    /\ Intact(mem, regs.rip)
    /\ LET i == Instr(regs.rip)
       IN  /\ hist' = [hist EXCEPT !.execPrev = @ \/ regs.rip = hist.prevSite]
           /\ \E next \in (IF i.tgt = {} THEN {None} ELSE i.tgt) :
                CASE i.kind = "call" ->
                       /\ mem' = ptrace_write(
                                   ptrace_write(mem, FuncFrame + WordSize,
                                                ToWord(regs.rip + i.len)),
                                   FuncFrame, ToWord(regs.rbp))
                       /\ regs' = [rip |-> next, rbp |-> FuncFrame]
                       /\ UNCHANGED <<procs, wstatus>>
                  [] i.kind = "ret" ->
                       /\ regs' = [rip |-> WordVal(ptrace_read(mem, regs.rbp + WordSize)),
                                   rbp |-> WordVal(ptrace_read(mem, regs.rbp))]
                       /\ UNCHANGED <<mem, procs, wstatus>>
                  [] i.kind = "exit" ->
                       /\ procs' = [procs EXCEPT ![inferior] = "zombie"]
                       /\ wstatus' = Exited(0)
                       /\ UNCHANGED <<mem, regs>>
                  [] OTHER ->
                       /\ regs' = [regs EXCEPT !.rip = next]
                       /\ UNCHANGED <<mem, procs, wstatus>>
    /\ UNCHANGED <<dpc, inferior, break_points, last, launch, bt, kr, wb, otherVars>>

\* rip is not at a whole instruction (it is past a trap opcode inside an
\* instruction, or an operand byte is patched): what the bytes decode to is
\* not fixed by the model, the child faults or falls through to the next
\* instruction
TargetGarbage(outcome) ==
    /\ Running
    /\ ~(InCode(regs.rip) /\ mem[regs.rip] = TrapOpcode)
    /\ ~Intact(mem, regs.rip)
    /\ IF outcome = "resync" /\ InCode(regs.rip)
       THEN /\ regs' = [regs EXCEPT !.rip = NextStart(regs.rip)]
            /\ UNCHANGED <<procs, wstatus>>
       ELSE /\ Stop(IF outcome = "resync" THEN "SIGSEGV" ELSE outcome, regs.rip)
            /\ UNCHANGED regs
    /\ UNCHANGED <<dpc, inferior, break_points, mem, last, launch, hist, bt, kr, wb, otherVars>>

\* a signal that is no trap reaches the running child: it stops
TargetSignal ==
    /\ Running
    /\ Stop("SIGINT", regs.rip)
    /\ UNCHANGED <<dpc, inferior, break_points, mem, regs, last, launch, hist,
                   bt, kr, wb, otherVars>>

\* the running child is killed from outside
TargetKilled ==
    /\ Running
    /\ procs' = [procs EXCEPT ![inferior] = "zombie"]
    /\ wstatus' = Signaled("SIGKILL")
    /\ UNCHANGED <<dpc, inferior, break_points, mem, regs, last, launch, hist,
                   bt, kr, wb, otherVars>>

Next ==
    \/ \E spawnOk \in BOOLEAN, first \in FirstStatuses : CmdRun(spawnOk, first)
    \/ CmdContinue
    \/ \E err \in BOOLEAN : WaitReturn(err)
    \/ CmdQuit
    \/ CmdBackTrace
    \/ BtStep
    \/ \E args \in BreakArgs : CmdBreak(args)
    \/ TargetTrap
    \/ TargetExec
    \/ \E outcome \in {"SIGSEGV", "SIGILL", "resync"} : TargetGarbage(outcome)
    \/ TargetSignal
    \/ TargetKilled

Spec == Init /\ [][Next]_vars


----------------------------------------------------------------------------
(* write_byte on its own: a byte is patched with the trap opcode and the    *)
(* byte the call returned is written back.  The memory is two mapped words  *)
(* at 0 and 8; an address past them is not mapped.                          *)

WbAddrs == 0..(2 * WordSize - 1)

\* the images tried: every byte f but one byte v, or all bytes different
WbImages ==
    {[x \in WbAddrs |-> IF x = q THEN v ELSE f] :
        q \in WbAddrs, v \in {0, 90, TrapOpcode}, f \in {0, TrapOpcode, ByteMax}}
    \cup {[x \in WbAddrs |-> 16 + x]}

InitWB ==
    /\ DbgInit
    /\ wb \in {[stage |-> "start", addr |-> a, mem0 |-> m, mem |-> m, orig |-> 0] :
                 a \in 0..MaxAddr, m \in WbImages}
    /\ OthersIdle

\* write_byte(addr, 0xcc)
WbPatch ==
    /\ wb.stage = "start"
    /\ LET r == write_byte(wb.mem, TRUE, wb.addr, TrapOpcode)
       IN  wb' = [wb EXCEPT !.stage = IF r.ok THEN "patched" ELSE "failed",
                            !.mem = r.mem, !.orig = r.orig]
    /\ UNCHANGED <<dbgVars, otherVars>>

\* write_byte(addr, orig_byte) with the byte the first call returned
WbRestore ==
    /\ wb.stage = "patched"
    /\ LET r == write_byte(wb.mem, TRUE, wb.addr, wb.orig)
       IN  wb' = [wb EXCEPT !.stage = IF r.ok THEN "restored" ELSE "failed",
                            !.mem = r.mem]
    /\ UNCHANGED <<dbgVars, otherVars>>

NextWB == WbPatch \/ WbRestore

SpecWB == InitWB /\ [][NextWB]_vars

----------------------------------------------------------------------------
(* The claims. *)

\* C1: patching the byte at an address with the trap opcode and writing back
\* the byte the first write_byte returned leaves the byte at the address and
\* the whole aligned word that contains it as they were before the patch.
C1_PatchRestoreRoundTrip ==
    wb.stage = "restored" =>
        /\ wb.mem[wb.addr] = wb.mem0[wb.addr]
        /\ ptrace_read(wb.mem, align_addr_to_word(wb.addr))
             = ptrace_read(wb.mem0, align_addr_to_word(wb.addr))
        /\ wb.orig = wb.mem0[wb.addr]

\* a byte that was not the trap opcode, at an odd offset of the second word,
\* has been patched and restored
C1_Witness ==
    /\ wb.stage = "restored"
    /\ wb.addr = WordSize + 3
    /\ wb.mem0[wb.addr] = 90
    /\ wb.mem0[wb.addr - 1] = ByteMax


NoInferiorMsg == "Error: there is not a inferior"

IsTrap(status) == status.kind = "Stopped" /\ status.sig = "SIGTRAP"

\* C2: Inferior::new waits once on the child it spawned; it returns the
\* handle only when that wait returned Stopped with SIGTRAP, and for every
\* other first status it returns None after that one wait and the controller
\* holds no handle of a live process.
C2_LaunchChecksFirstStop ==
    /\ launch.res = "some" => (IsTrap(launch.first) /\ launch.waits = 1)
    /\ (launch.pid # 0 /\ ~IsTrap(launch.first)) =>
          /\ launch.res = "fail"
          /\ launch.waits = 1
          /\ inferior # launch.pid
          /\ ~Exists(procs, inferior)

\* a launch has failed on a first stop that was not the trap, after an
\* earlier child was killed for it
C2_Witness ==
    /\ launch.res = "fail"
    /\ launch.first = Stopped("SIGINT", StartAddr)
    /\ launch.pid = 2
    /\ inferior = 1

\* C3: after a run command, also a second one, the new child runs only with
\* the trap opcode at every address of the breakpoint table: no resume is
\* issued before all entries are patched into the fresh image.
C3_PatchedBeforeFirstInstruction ==
    (Running /\ last.cmd = "run") =>
        \A a \in break_points : a \in DOMAIN mem /\ mem[a] = TrapOpcode

\* the second child has been resumed at its entry with two breakpoints set
C3_Witness ==
    /\ Running
    /\ last.cmd = "run"
    /\ launch.pid = 2
    /\ regs.rip = StartAddr
    /\ break_points = {CallAddr, LoopAddr}

\* C4: two continue commands in a row, with no breakpoint change between
\* them, both stop at the same breakpoint site only if the child executed
\* the original instruction of that site in between.
C4_NoRetrapWithoutProgress ==
    (/\ dpc = "prompt"
     /\ hist.stopCmd = "continue" /\ hist.prevCmd = "continue"
     /\ hist.stopSite # None /\ hist.stopSite = hist.prevSite)
    => hist.execPrev

\* C5: with the one breakpoint at the first instruction of the loop, run
\* returns Stopped at that address, and the next continue returns Stopped at
\* that address again after the loop body was executed.
C5_LoopBreakpointReportsSite ==
    (/\ dpc = "prompt"
     /\ break_points = {LoopAddr}
     /\ last.cmd \in {"run", "continue"}
     /\ IsTrap(last.status))
    => /\ last.status.rip = LoopAddr
       /\ (last.cmd = "continue" /\ hist.prevCmd = "run") => hist.execPrev

\* C6: when run or continue returns Exited or Signaled the controller holds
\* no handle afterwards, and a continue or backtrace issued without a handle
\* reports that there is no inferior.
C6_TerminalStatusDropsHandle ==
    /\ [](( /\ dpc = "prompt"
            /\ last.cmd \in {"run", "continue"}
            /\ last.status.kind \in {"Exited", "Signaled"} ) => inferior = 0)
    /\ [][ ( /\ dpc = "prompt" /\ inferior = 0
             /\ last' # last
             /\ last'.cmd \in {"continue", "backtrace"} )
           => ( /\ last'.msg = NoInferiorMsg
                /\ dpc' = "prompt"
                /\ inferior' = 0 ) ]_vars

\* the target has exited with code 0 under an empty breakpoint table
C6_Witness ==
    /\ dpc = "prompt"
    /\ last.cmd = "run"
    /\ last.status = Exited(0)
    /\ break_points = {}
    /\ inferior = 0

\* the children that are alive
Live == {p \in Pids : procs[p] \in {"stopped", "running"}}

\* C7: at most one traced child is alive, and every child that is alive is
\* the one whose handle the controller holds.
C7_AtMostOneChild ==
    /\ Cardinality(Live) <= 1
    /\ \A p \in Live : inferior = p

\* C8: a kill_and_reap on a handle whose process is dead and reaped already
\* completes without a panic.
C8_KillAndReapTwice ==
    (kr.called /\ kr.dead) => (kr.ok /\ dpc # "aborted")

\* C9: a failed read or write of target memory while a breakpoint is patched
\* in does not abort the debugger.
C9_PatchFailureIsRecoverable ==
    ~(dpc = "aborted" /\ last.panic = "patch")

\* C10: a backtrace of a child stopped inside main prints one frame, main,
\* and reads no stack memory.
C10_BacktraceInMain ==
    (bt.frames # <<>> /\ get_function_from_addr(bt.rip0) = "main") =>
        /\ bt.frames = <<"main">>
        /\ bt.reads = 0
        /\ dpc = "prompt"
        /\ last = Last("backtrace", NoStatus, "frames", "none")

\* the child stopped past the trap at the head of the loop and its
\* backtrace has been printed
C10_Witness ==
    /\ bt.frames = <<"main">>
    /\ bt.rip0 = LoopAddr + 1
    /\ inferior # 0
    /\ last.cmd = "backtrace"

\* C11: a miss of the symbol resolver (no function or line for an address
\* in a backtrace or in the printing of a Stopped status, no address for the
\* line number or the hex text given to break) is reported and never aborts
\* the debugger.
C11_ResolverMissIsReported ==
    ~(dpc = "aborted" /\ last.panic \in {"resolve", "parse"})

----------------------------------------------------------------------------
(* Debugger::break_point on its own: one call on a breakpoint table, with   *)
(* more forms of the argument than the session above is run with.           *)

\* the argument vectors break_point is called with
BpArgs ==
    { <<>>, << <<"m", "a", "i", "n">>, <<"f">> >>,
      << <<"*", "0", "x", "b">> >>, << <<"*", "b">> >>, << <<"*", "1", "0">> >>,
      << <<"*", "0", "x", "1", "0">> >>, << <<"*", "z">> >>, << <<"*">> >>,
      << <<"*", "f">> >>, << <<"*", "m", "a", "i", "n">> >>,
      << <<"1", "0">> >>, << <<"9", "9">> >>, << <<"1", "6">> >>,
      << <<"m", "a", "i", "n">> >>, << <<"f">> >>, << <<"z">> >>,
      << <<"0", "x", "1", "0">> >>, << <<"b">> >> }

InitBP ==
    /\ DbgInit /\ wb = NoWb
    /\ bpt \in {[stage |-> "start", args |-> a, table0 |-> t, table |-> t] :
                  a \in BpArgs, t \in SUBSET {MainAddr, LoopAddr, FuncAddr}}
    /\ lb = NoLb /\ diff = NoDiff /\ dd = NoDd /\ MoreIdle

\* self.break_point(args): stage becomes what the call did
BpCall ==
    /\ bpt.stage = "start"
    /\ LET r == break_point(bpt.args)
       IN  bpt' = [bpt EXCEPT !.stage = r.res,
                              !.table = IF r.res = "set" THEN @ \cup {r.rip}
                                        ELSE @]
    /\ UNCHANGED <<dbgVars, wb, lb, diff, dd, moreVars>>

NextBP == BpCall

SpecBP == InitBP /\ [][NextBP]_vars

\* the three readings of a breakpoint specification: the address it gives,
\* or None
AsHexAddress(spec) ==
    IF starts_with(spec, <<"*">>) THEN parse_address(Tail(spec)) ELSE None

AsLineNumber(spec) ==
    IF from_str_radix(spec, 10) = None THEN None
    ELSE get_addr_for_line(from_str_radix(spec, 10))

AsFunctionName(spec) == get_addr_for_function(spec)

\* the address of the first reading that succeeds, or None
FirstReading(spec) ==
    IF AsHexAddress(spec) # None THEN AsHexAddress(spec)
    ELSE IF AsLineNumber(spec) # None THEN AsLineNumber(spec)
    ELSE AsFunctionName(spec)

\* C12: a breakpoint specification is read as a raw hex address (the form
\* with the star), then as a decimal line number, then as a function name;
\* the first reading that gives an address decides the address inserted
\* into the table, and when none does the table is left as it was.
C12_ResolutionOrder ==
    (bpt.stage # "start" /\ Len(bpt.args) = 1) =>
        LET a == FirstReading(bpt.args[1])
        IN  /\ a # None => (bpt.stage = "set" /\ bpt.table = bpt.table0 \cup {a})
            /\ a = None => bpt.table = bpt.table0

\* the specification 10, which is a line number and would also parse as hex
\* text, has put the address of line 10 into the table
C12_Witness ==
    /\ bpt.stage = "set"
    /\ bpt.args = << <<"1", "0">> >>
    /\ bpt.table0 = {MainAddr}
    /\ bpt.table = {MainAddr, LoopAddr}

----------------------------------------------------------------------------
(* balancebeam (proj-2): the accept loop of main, which handles one         *)
(* connection at a time, and the rate_limiting_refresh task.  lb.fwd and    *)
(* lb.rej count, per client IP and since the last refresh, the requests     *)
(* forwarded upstream and the connections answered with 429.                *)

\* the largest max_requests_per_minute tried
MaxRate == 2
\* the largest count kept in ratio_limit
MaxCount == 3
\* the most requests forwarded for one client IP in one window
MaxForward == 3

Clients == {"ip1", "ip2"}

NoConn == "none"

\* ratio_limit_map.get(&client_ip) after the insert of 0 for a missing key
RatioCount(map, ip) == IF ip \in DOMAIN map THEN map[ip] ELSE 0

\* ratio_limit_map.insert(client_ip, new_cnt)
RatioInsert(map, ip, cnt) ==
    [x \in (DOMAIN map) \cup {ip} |-> IF x = ip THEN cnt ELSE map[x]]

InitLB ==
    /\ DbgInit /\ wb = NoWb
    /\ lb \in {[stage |-> "on", max_requests_per_minute |-> n,
                ratio_limit |-> <<>>, conn |-> NoConn,
                fwd |-> [c \in Clients |-> 0], rej |-> [c \in Clients |-> 0]] :
                 n \in 0..MaxRate}
    /\ bpt = NoBpt /\ diff = NoDiff /\ dd = NoDd /\ MoreIdle

\* listener.accept() and handle_connection up to its request loop.
\* upOk: connect_to_upstream returned a stream
LbAccept(client_ip, upOk) ==
    /\ lb.stage = "on"
    /\ lb.conn = NoConn
    /\ IF lb.max_requests_per_minute # 0
       THEN LET new_cnt == RatioCount(lb.ratio_limit, client_ip) + 1
                map     == RatioInsert(lb.ratio_limit, client_ip, new_cnt)
            IN  /\ new_cnt <= MaxCount
                /\ IF new_cnt > lb.max_requests_per_minute
                   THEN lb' = [lb EXCEPT !.ratio_limit = map,
                                         !.rej[client_ip] = @ + 1]
                   ELSE lb' = [lb EXCEPT !.ratio_limit = map,
                                         !.conn = IF upOk THEN client_ip
                                                  ELSE NoConn]
       ELSE lb' = [lb EXCEPT !.conn = IF upOk THEN client_ip ELSE NoConn]
    /\ UNCHANGED <<dbgVars, wb, bpt, diff, dd, moreVars>>

\* one iteration of the request loop of handle_connection.  what: "ok" (the
\* request is forwarded and the response relayed), "bad" (the request does
\* not parse: an error response, continue), "eof" (the client hung up or a
\* read error: return), "sendfail" (the write to the upstream failed:
\* return), "respfail" (forwarded, but no response could be read: return)
LbRequest(what) ==
    /\ lb.stage = "on"
    /\ lb.conn # NoConn
    /\ CASE what = "ok" ->
              /\ lb.fwd[lb.conn] < MaxForward
              /\ lb' = [lb EXCEPT !.fwd[lb.conn] = @ + 1]
         [] what = "respfail" ->
              /\ lb.fwd[lb.conn] < MaxForward
              /\ lb' = [lb EXCEPT !.fwd[lb.conn] = @ + 1, !.conn = NoConn]
         [] what = "bad" -> UNCHANGED lb
         [] OTHER -> lb' = [lb EXCEPT !.conn = NoConn]
    /\ UNCHANGED <<dbgVars, wb, bpt, diff, dd, moreVars>>

\* rate_limiting_refresh: the task exists only when the limit is not 0; a
\* new window begins
LbRefresh ==
    /\ lb.stage = "on"
    /\ lb.max_requests_per_minute # 0
    /\ lb' = [lb EXCEPT !.ratio_limit = <<>>,
                        !.fwd = [c \in Clients |-> 0],
                        !.rej = [c \in Clients |-> 0]]
    /\ UNCHANGED <<dbgVars, wb, bpt, diff, dd, moreVars>>

NextLB ==
    \/ \E ip \in Clients, upOk \in BOOLEAN : LbAccept(ip, upOk)
    \/ \E what \in {"ok", "bad", "eof", "sendfail", "respfail"} : LbRequest(what)
    \/ LbRefresh

SpecLB == InitLB /\ [][NextLB]_vars

\* C13: with a limit N > 0 at most N requests of one client IP are
\* forwarded upstream within one refresh window; with N = 0 nothing is ever
\* answered with 429.
C13_RateLimitPerWindow ==
    lb.stage = "on" =>
        /\ lb.max_requests_per_minute > 0 =>
              \A c \in Clients : lb.fwd[c] <= lb.max_requests_per_minute
        /\ lb.max_requests_per_minute = 0 => \A c \in Clients : lb.rej[c] = 0

----------------------------------------------------------------------------
(* rdiff (week2): lcs.  A Grid is the function of its cells, rows and       *)
(* columns counted from 0.                                                  *)

\* the longest sequence lcs and dedup are tried with
MaxLen == 3

\* Grid::new(rows, cols): every cell is 0
Grid_new(rows, cols) == [p \in (0..(rows - 1)) \X (0..(cols - 1)) |-> 0]

\* Grid::get(row, col): None outside the grid
Grid_get(g, row, col) == IF <<row, col>> \in DOMAIN g THEN g[<<row, col>>] ELSE None

\* Grid::set(row, col, val): nothing is written outside the grid
Grid_set(g, row, col, val) ==
    IF <<row, col>> \in DOMAIN g THEN [g EXCEPT ![<<row, col>>] = val] ELSE g

\* the larger of two numbers
cmp_max(x, y) == IF x >= y THEN x ELSE y

\* the body of the inner loop with the test of equality left out
lcs_cell_nomatch(c, seq1, seq2, i, j) ==
    Grid_set(c, i + 1, j + 1,
             cmp_max(Grid_get(c, i + 1, j), Grid_get(c, i, j + 1)))

\* the body of the inner loop of lcs for the indices i and j
lcs_cell(c, seq1, seq2, i, j) ==
    IF seq1[i + 1] = seq2[j + 1]
    THEN Grid_set(c, i + 1, j + 1, Grid_get(c, i, j) + 1)
    ELSE Grid_set(c, i + 1, j + 1,
                  cmp_max(Grid_get(c, i + 1, j), Grid_get(c, i, j + 1)))

\* the two loops of lcs from the indices i and j on; m and n as in the code
RECURSIVE lcs_loop(_, _, _, _, _)
lcs_loop(c, seq1, seq2, i, j) ==
    LET m == Len(seq1) + 1
        n == Len(seq2) + 1
    IN  IF i >= m - 1 THEN c
        ELSE IF j >= n - 1 THEN lcs_loop(c, seq1, seq2, i + 1, 0)
        ELSE lcs_loop(lcs_cell(c, seq1, seq2, i, j), seq1, seq2, i, j + 1)

lcs(seq1, seq2) ==
    lcs_loop(Grid_new(Len(seq1) + 1, Len(seq2) + 1), seq1, seq2, 0, 0)

\* the sequences of lines tried: all over two lines up to MaxLen, and the
\* two of test_lcs
Lines == {"a", "b"}

LcsInputs ==
    UNION {[1..k -> Lines] : k \in 0..MaxLen}
    \cup {<<"a", "b", "c", "d">>, <<"a", "d", "b">>}

InitLCS ==
    /\ DbgInit /\ wb = NoWb
    /\ diff \in {[stage |-> "start", seq1 |-> s1, seq2 |-> s2, c |-> <<>>] :
                   s1 \in LcsInputs, s2 \in LcsInputs}
    /\ bpt = NoBpt /\ lb = NoLb /\ dd = NoDd /\ MoreIdle

\* let c = lcs(&seq1, &seq2)
LcsCall ==
    /\ diff.stage = "start"
    /\ diff' = [diff EXCEPT !.stage = "done", !.c = lcs(diff.seq1, diff.seq2)]
    /\ UNCHANGED <<dbgVars, wb, bpt, lb, dd, moreVars>>

NextLCS == LcsCall

SpecLCS == InitLCS /\ [][NextLCS]_vars

\* the subsequences of s
RECURSIVE Subseqs(_)
Subseqs(s) ==
    IF s = <<>> THEN {<<>>}
    ELSE LET r == Subseqs(Tail(s))
         IN  r \cup {<<Head(s)>> \o x : x \in r}

\* the length of a longest common subsequence of s and t
LcsLength(s, t) ==
    LET common == Subseqs(s) \cap Subseqs(t)
    IN  CHOOSE k \in 0..Len(s) :
            /\ \E x \in common : Len(x) = k
            /\ \A x \in common : Len(x) <= k

\* C14: lcs returns a grid of (len(seq1)+1) x (len(seq2)+1) cells whose row
\* 0 and column 0 are 0 and whose cell (i, j) is the length of a longest
\* common subsequence of the first i elements of seq1 and the first j of
\* seq2.
C14_LcsGrid ==
    diff.stage = "done" =>
        LET rows == 0..Len(diff.seq1)
            cols == 0..Len(diff.seq2)
        IN  /\ DOMAIN diff.c = rows \X cols
            /\ \A i \in rows : diff.c[<<i, 0>>] = 0
            /\ \A j \in cols : diff.c[<<0, j>>] = 0
            /\ \A i \in rows, j \in cols :
                  diff.c[<<i, j>>] = LcsLength(SubSeq(diff.seq1, 1, i),
                                               SubSeq(diff.seq2, 1, j))

\* the grid of test_lcs has been computed: abcd and adb have a longest
\* common subsequence of 2
C14_Witness ==
    /\ diff.stage = "done"
    /\ diff.seq1 = <<"a", "b", "c", "d">>
    /\ diff.seq2 = <<"a", "d", "b">>
    /\ diff.c[<<4, 3>>] = 2
    /\ diff.c[<<1, 3>>] = 1

----------------------------------------------------------------------------
(* The warmup (week1 part 2): dedup.                                        *)

\* the loop of dedup that pushes the last element of v also when its value
\* was seen before
RECURSIVE dedup_loop_pushall(_, _, _, _)
dedup_loop_pushall(v, k, is_exist, v2) ==
    IF k > Len(v) THEN v2
    ELSE dedup_loop_pushall(v, k + 1, is_exist \cup {v[k]},
                            IF v[k] \notin is_exist \/ k = Len(v)
                            THEN Append(v2, v[k]) ELSE v2)

\* the for loop of dedup from index k on: is_exist is the set of the values
\* seen, v2 the vector built
RECURSIVE dedup_loop(_, _, _, _)
dedup_loop(v, k, is_exist, v2) ==
    IF k > Len(v) THEN v2
    ELSE IF v[k] \notin is_exist
    THEN dedup_loop(v, k + 1, is_exist \cup {v[k]}, Append(v2, v[k]))
    ELSE dedup_loop(v, k + 1, is_exist, v2)

\* dedup with the last element kept also when it was seen before
dedup_keeplast(v) == dedup_loop_pushall(v, 1, {}, <<>>)

\* dedup(&mut v): the value of v afterwards (v.clear(); v.extend(v2.iter()))
dedup(v) == <<>> \o dedup_loop(v, 1, {}, <<>>)

\* the values of the vectors tried
Values == {0, 1, 3}

DedupInputs ==
    UNION {[1..k -> Values] : k \in 0..(MaxLen + 1)}
    \cup {<<3, 1, 0, 1, 4, 4>>}

InitDedup ==
    /\ DbgInit /\ wb = NoWb
    /\ dd \in {[stage |-> "start", v0 |-> v, v |-> v] : v \in DedupInputs}
    /\ bpt = NoBpt /\ lb = NoLb /\ diff = NoDiff /\ MoreIdle

\* dedup(&mut v)
DedupCall ==
    /\ dd.stage = "start"
    /\ dd' = [dd EXCEPT !.stage = "done", !.v = dedup(dd.v)]
    /\ UNCHANGED <<dbgVars, wb, bpt, lb, diff, moreVars>>

NextDedup == DedupCall

SpecDedup == InitDedup /\ [][NextDedup]_vars

\* the index of the first occurrence of x in s
FirstIndex(s, x) == CHOOSE k \in 1..Len(s) : s[k] = x /\ \A q \in 1..(k - 1) : s[q] # x

\* C15: dedup leaves in v exactly the distinct values of the original v,
\* each once, in the order of their first occurrence in the original.
C15_DedupFirstOccurrences ==
    dd.stage = "done" =>
        /\ {dd.v[k] : k \in 1..Len(dd.v)} = {dd.v0[k] : k \in 1..Len(dd.v0)}
        /\ \A k, q \in 1..Len(dd.v) : k # q => dd.v[k] # dd.v[q]
        /\ \A k, q \in 1..Len(dd.v) :
              k < q => FirstIndex(dd.v0, dd.v[k]) < FirstIndex(dd.v0, dd.v[q])

\* the vector of test_dedup has been deduplicated
C15_Witness ==
    /\ dd.stage = "done"
    /\ dd.v0 = <<3, 1, 0, 1, 4, 4>>
    /\ dd.v = <<3, 1, 0, 4>>

----------------------------------------------------------------------------
(* More claims on the debugger session. *)

\* C16: a continue issued while the child is stopped at a breakpoint site
\* restores the original byte, single-steps the original instruction and
\* reinstalls the trap before the general resume: whatever the resumed child
\* has done since, the original instruction of the site was executed first
\* and the trap opcode is at the site.
C16_StepOverBreakpoint ==
    (/\ dpc = "wait"
     /\ last.cmd = "continue"
     /\ hist.prevSite # None
     /\ (regs.rip # hist.prevSite + 1 \/ wstatus.kind # "none"))
    => /\ hist.execPrev
       /\ mem[hist.prevSite] = TrapOpcode

\* Breakpoint::new(addr, orig_byte)
Breakpoint_new(addr, orig_byte) == [addr |-> addr, orig_byte |-> orig_byte]

\* Debugger.break_points with the values of its entries: break_point
\* inserts Breakpoint::new(rip, 0), and neither Inferior::new nor
\* Inferior::cont, which drop the byte write_byte returns, writes an entry
BreakpointTable == [a \in break_points |-> Breakpoint_new(a, 0)]

\* the breakpoints installed in the current process
Installed ==
    {a \in break_points :
        inferior # 0 /\ Exists(procs, inferior) /\ Mapped(mem, a)
        /\ mem[a] = TrapOpcode}

\* C17: for every breakpoint installed in the current process the original
\* byte recorded in its table entry is the byte of the unpatched image at
\* its address (and so never the trap opcode written over it).
C17_RecordedOriginalByte ==
    \A a \in Installed :
        /\ BreakpointTable[a].orig_byte = FreshImage[a]
        /\ BreakpointTable[a].orig_byte # TrapOpcode

\* C18: a write_byte(addr, val) on a mapped word works on the 8-byte word
\* at the largest multiple of 8 not above addr: it returns the byte that
\* was at addr, sets that byte to val and leaves every other byte of the
\* memory as it was; on a word that is not mapped it fails and changes
\* nothing.
C18_WriteByteFrame ==
    [][ wb'.stage # wb.stage =>
          LET addr    == wb.addr
              val     == IF wb.stage = "start" THEN TrapOpcode ELSE wb.orig
              aligned == addr - (addr % WordSize)
          IN  /\ align_addr_to_word(addr) = aligned
              /\ wb'.stage = "failed" <=> ~Mapped(wb.mem, aligned)
              /\ wb'.stage = "failed" => wb'.mem = wb.mem
              /\ wb'.stage # "failed" =>
                    /\ DOMAIN wb'.mem = DOMAIN wb.mem
                    /\ wb'.mem[addr] = val
                    /\ wb.stage = "start" => wb'.orig = wb.mem[addr]
                    /\ \A x \in DOMAIN wb.mem :
                          x # addr => wb'.mem[x] = wb.mem[x] ]_vars

\* the last byte of the second word, between bytes of another value, has
\* been patched and the byte that was there returned
C18_Witness ==
    /\ wb.stage = "patched"
    /\ wb.addr = 2 * WordSize - 1
    /\ wb.mem0[wb.addr] = 90
    /\ wb.mem0[wb.addr - 1] = ByteMax
    /\ wb.mem[wb.addr] = TrapOpcode
    /\ wb.orig = 90

\* C19: after a continue the child runs only with the trap opcode at every
\* address of the breakpoint table, also at an address that was added while
\* the child was stopped: the continue patches it in before the resume and
\* the entries installed before stay installed.
C19_AddedWhileStoppedIsPatched ==
    (Running /\ last.cmd = "continue") =>
        \A a \in break_points : a \in DOMAIN mem /\ mem[a] = TrapOpcode

\* the child has been resumed from its stop at the loop head with the trap
\* at the call of main in place, and the frame of f on its stack shows that
\* it executed that call before: the breakpoint at the call was added while
\* it was stopped
C19_Witness ==
    /\ Running
    /\ last.cmd = "continue"
    /\ hist.prevSite = LoopAddr
    /\ break_points = {CallAddr, LoopAddr}
    /\ mem[CallAddr] = TrapOpcode
    /\ WordVal(ptrace_read(mem, FuncFrame + WordSize)) = LoopAddr

\* C20: continue and backtrace are dispatched only to a handle whose process
\* is alive and stopped: no resume, byte patch or register read of a
\* continue or a backtrace has been issued, and has failed, on a handle
\* whose process has exited, was killed by a signal or was killed and
\* reaped.
C20_HandleOpsOnStoppedProcess ==
    ~(/\ dpc = "aborted"
      /\ last.cmd \in {"continue", "backtrace"}
      /\ last.panic \in {"patch", "cont", "getregs"}
      /\ inferior # 0
      /\ ~Traceable(procs, inferior))

----------------------------------------------------------------------------
(* Inferior::wait on its own: one call, on every result waitpid and         *)
(* ptrace::getregs can give.                                                *)

\* what waitpid returns: an error, or a WaitStatus of one of its shapes
WaitResult(ok, shape, code, sig) ==
    [ok |-> ok, shape |-> shape, code |-> code, sig |-> sig]

WaitResults ==
    {WaitResult(FALSE, "none", 0, "")}
    \cup {WaitResult(TRUE, "Exited", c, "") : c \in {0, 1, ByteMax}}
    \cup {WaitResult(TRUE, "Signaled", 0, s) : s \in {"SIGKILL", "SIGSEGV"}}
    \cup {WaitResult(TRUE, "Stopped", 0, s) : s \in {"SIGTRAP", "SIGINT", "SIGSTOP"}}
    \cup {WaitResult(TRUE, sh, 0, "SIGTRAP") :
            sh \in {"PtraceEvent", "PtraceSyscall", "Continued", "StillAlive"}}

\* what ptrace::getregs returns: an error, or the registers
RegResults ==
    {[ok |-> FALSE, rip |-> 0]}
    \cup {[ok |-> TRUE, rip |-> a] : a \in {StartAddr, LoopAddr, LoopAddr + 1, WildAddr}}

\* what a call returns: res is "ok" (status is returned), "err" (an Err is
\* returned) or "panic"
WaitOut(res, status) == [res |-> res, status |-> status]

\* Inferior::wait with the last arm returning an Err
wait_lenient(w, g) ==
    IF ~w.ok THEN WaitOut("err", WaitErr)
    ELSE CASE w.shape = "Exited" -> WaitOut("ok", Exited(w.code))
           [] w.shape = "Signaled" -> WaitOut("ok", Signaled(w.sig))
           [] w.shape = "Stopped" ->
                IF ~g.ok THEN WaitOut("err", WaitErr)
                ELSE WaitOut("ok", Stopped(w.sig, g.rip))
           [] OTHER -> WaitOut("err", WaitErr)

\* Inferior::wait: w is the result of waitpid, g the result of the
\* ptrace::getregs that is called in the Stopped arm
wait(w, g) ==
    IF ~w.ok THEN WaitOut("err", WaitErr)
    ELSE CASE w.shape = "Exited" -> WaitOut("ok", Exited(w.code))
           [] w.shape = "Signaled" -> WaitOut("ok", Signaled(w.sig))
           [] w.shape = "Stopped" ->
                IF ~g.ok THEN WaitOut("err", WaitErr)
                ELSE WaitOut("ok", Stopped(w.sig, g.rip))
           [] OTHER -> WaitOut("panic", NoStatus)

InitWait ==
    /\ DbgInit /\ wb = NoWb
    /\ bpt = NoBpt /\ lb = NoLb /\ diff = NoDiff /\ dd = NoDd
    /\ wt \in {[stage |-> "start", w |-> w, g |-> g, out |-> WaitOut("none", NoStatus)] :
                 w \in WaitResults, g \in RegResults}
    /\ pm = NoPm /\ up = NoUp /\ pd = NoPd

\* self.wait(None)
WtCall ==
    /\ wt.stage = "start"
    /\ wt' = [wt EXCEPT !.stage = "done", !.out = wait(wt.w, wt.g)]
    /\ UNCHANGED <<dbgVars, wb, bpt, lb, diff, dd, pm, up, pd>>

NextWait == WtCall

SpecWait == InitWait /\ [][NextWait]_vars

\* C21: wait turns an exit with code c into Exited(c), a termination by
\* signal s into Signaled(s) and a stop by signal s into Stopped(s, ip) with
\* the rip that getregs read; a failed waitpid, or a failed getregs of a
\* stop, is returned as an error; any other shape of the wait result
\* aborts the debugger and is not returned as an error.
C21_WaitMapsStatus ==
    wt.stage = "done" =>
        LET w == wt.w
            g == wt.g
            o == wt.out
        IN  /\ ~w.ok => o.res = "err"
            /\ (w.ok /\ w.shape = "Exited") =>
                  (o.res = "ok" /\ o.status.kind = "Exited" /\ o.status.code = w.code)
            /\ (w.ok /\ w.shape = "Signaled") =>
                  (o.res = "ok" /\ o.status.kind = "Signaled" /\ o.status.sig = w.sig)
            /\ (w.ok /\ w.shape = "Stopped" /\ g.ok) =>
                  (/\ o.res = "ok" /\ o.status.kind = "Stopped"
                   /\ o.status.sig = w.sig /\ o.status.rip = g.rip)
            /\ (w.ok /\ w.shape = "Stopped" /\ ~g.ok) => o.res = "err"
            /\ (w.ok /\ w.shape \notin {"Exited", "Signaled", "Stopped"}) =>
                  o.res = "panic"

\* a wait result that is none of the three shapes has aborted the debugger
C21_Witness ==
    /\ wt.stage = "done"
    /\ wt.w = WaitResult(TRUE, "Continued", 0, "SIGTRAP")
    /\ wt.g.ok
    /\ wt.out.res = "panic"

----------------------------------------------------------------------------
(* More claims on the debugger session. *)

\* C22: when the debugger has terminated, by quit or by an abort, while it
\* held a handle, kill_and_reap was executed on that handle first: the
\* process of the handle is not left alive.
C22_KillAndReapBeforeExit ==
    (dpc \in {"quit", "aborted"} /\ inferior # 0) =>
        procs[inferior] \notin {"stopped", "running"}

\* the address the call of main returns to
ReturnAddr == CallAddr + Instr(CallAddr).len

\* C23: a backtrace of a child stopped in f, whose frame chain has the two
\* frames f and main, prints exactly two pairs, innermost first: f with the
\* line of the current rip, then main with the line of the return address
\* read at [rbp + 8]; it reads two words of the stack and stops at main.
C23_BacktraceWalksFrames ==
    (bt.frames # <<>> /\ dpc # "bt" /\ get_function_from_addr(bt.rip0) = "f") =>
        /\ dpc = "prompt"
        /\ last = Last("backtrace", NoStatus, "frames", "none")
        /\ bt.frames = <<"f", "main">>
        /\ bt.lines = <<get_line_from_addr(bt.rip0), get_line_from_addr(ReturnAddr)>>
        /\ bt.reads = 2
        /\ bt.rip = ReturnAddr
        /\ bt.rbp = MainFrame

\* the child was stopped by a signal at the return of f and its backtrace
\* has been printed
C23_Witness ==
    /\ dpc = "prompt"
    /\ last.cmd = "backtrace"
    /\ bt.rip0 = RetAddr
    /\ bt.frames = <<"f", "main">>
    /\ Len(bt.lines) = 2

----------------------------------------------------------------------------
(* print_backtrace on a stopped child with any content of the frame of f:   *)
(* the saved frame base and the return address are whatever the target      *)
(* left there.                                                              *)

\* the most frames a walk is followed for
MaxFrames == 4

\* the number of frames the stack mapping has room for
StackDepth == (StackHi + 1 - StackLo) \div (2 * WordSize)

\* the image with the saved frame base fp and the return address ra in the
\* frame at FuncFrame
ImageWithFrame(fp, ra) ==
    ptrace_write(ptrace_write(FreshImage, FuncFrame + WordSize, ToWord(ra)),
                 FuncFrame, ToWord(fp))

InitBT ==
    /\ dpc = "prompt"
    /\ inferior = 1
    /\ break_points = {}
    /\ procs = [p \in Pids |-> IF p = 1 THEN "stopped" ELSE "none"]
    /\ mem \in {ImageWithFrame(fp, ra) :
                  fp \in {MainFrame, FuncFrame, WildAddr, 0},
                  ra \in {ReturnAddr, FuncAddr, RetAddr, WildAddr}}
    /\ regs \in {[rip |-> r, rbp |-> b] :
                   r \in {LoopAddr + 1, FuncAddr, RetAddr},
                   b \in {FuncFrame, MainFrame, WildAddr}}
    /\ wstatus = NoStatus
    /\ last = Last("run", Stopped("SIGINT", regs.rip), "status", "none")
    /\ launch = NoLaunch
    /\ hist = NoHist
    /\ bt = NoBt
    /\ kr = NoKr
    /\ wb = NoWb
    /\ OthersIdle

\* one iteration of the walk, followed for MaxFrames frames
BtStepBounded == Len(bt.frames) < MaxFrames /\ BtStep

NextBT == CmdBackTrace \/ BtStepBounded

SpecBT == InitBT /\ [][NextBT]_vars

\* C24: the backtrace walk prints no more frames than the stack has room
\* for, also when the chain of saved frame bases is corrupted or cyclic and
\* never reaches main.
C24_BacktraceBounded ==
    Len(bt.frames) <= StackDepth

----------------------------------------------------------------------------
(* More claims on the debugger session. *)

\* run or continue has returned a stop by a signal that is no trap
SignalStop ==
    /\ dpc = "prompt"
    /\ last.cmd \in {"run", "continue"}
    /\ last.status.kind = "Stopped"
    /\ last.status.sig = "SIGINT"

----------------------------------------------------------------------------
(* parallel_map (week6): the main thread, the worker threads and the two    *)
(* unbounded channels.  pm.applied counts the calls of f by input index.    *)

\* the longest input vector and the most worker threads tried
MaxInput == 4
MaxThreads == 3

\* the closure of main: num * num
f(num) == num * num

\* Default::default() of the output type
Default == 0

\* the vector of main; the inputs tried are its prefixes
MainVec == <<6, 7, 8, 9, 10, 1, 2, 3, 4, 5, 12, 18, 11, 5, 20>>

Threads == 1..MaxThreads

\* the index sent with the i-th element popped, counted from the front
send_index_forward(input_num, i) == i

\* the index sent with the i-th element popped: input_num - i - 1
send_index(input_num, i) == input_num - i - 1

\* the input sender is kept after the send loop
keep_input_sender(p) == p

\* drop(input_sender)
drop_input_sender(p) == [p EXCEPT !.in_open = FALSE]

InitPM ==
    /\ DbgInit /\ wb = NoWb
    /\ bpt = NoBpt /\ lb = NoLb /\ diff = NoDiff /\ dd = NoDd
    /\ wt = NoWt /\ up = NoUp /\ pd = NoPd
    /\ pm \in {[stage |-> "on", mpc |-> "spawn",
                input |-> SubSeq(MainVec, 1, n), num_threads |-> k,
                input_vec |-> SubSeq(MainVec, 1, n),
                output_vec |-> [x \in 1..n |-> Default],
                spawned |-> 0, i |-> 0, joined |-> 0,
                in_ch |-> <<>>, in_open |-> TRUE,
                out_ch |-> <<>>, out_main |-> TRUE,
                wpc |-> [t \in Threads |-> "none"],
                held |-> [t \in Threads |-> <<>>],
                applied |-> [x \in 0..(n - 1) |-> 0]] :
                 n \in 0..MaxInput, k \in 0..MaxThreads}

\* the spawn loop: one more worker is started, with its clones of the input
\* receiver and the output sender
PmSpawn ==
    /\ pm.stage = "on" /\ pm.mpc = "spawn"
    /\ IF pm.spawned < pm.num_threads
       THEN pm' = [pm EXCEPT !.spawned = @ + 1, !.wpc[pm.spawned + 1] = "recv"]
       ELSE pm' = [pm EXCEPT !.mpc = "send"]
    /\ UNCHANGED <<dbgVars, wb, bpt, lb, diff, dd, wt, up, pd>>

\* the send loop: the last element is popped and sent with its index; after
\* the loop the input sender is dropped
PmSend ==
    /\ pm.stage = "on" /\ pm.mpc = "send"
    /\ LET input_num == Len(pm.input)
       IN  IF pm.i < input_num
           THEN pm' = [pm EXCEPT
                         !.in_ch = Append(@, <<send_index(input_num, pm.i),
                                               pm.input_vec[Len(pm.input_vec)]>>),
                         !.input_vec = SubSeq(@, 1, Len(@) - 1),
                         !.i = @ + 1]
           ELSE pm' = [drop_input_sender(pm) EXCEPT !.mpc = "join"]
    /\ UNCHANGED <<dbgVars, wb, bpt, lb, diff, dd, wt, up, pd>>

\* the join loop: the next thread has ended; after the loop the output
\* sender of the main thread is dropped
PmJoin ==
    /\ pm.stage = "on" /\ pm.mpc = "join"
    /\ IF pm.joined < pm.num_threads
       THEN /\ pm.wpc[pm.joined + 1] = "exit"
            /\ pm' = [pm EXCEPT !.joined = @ + 1]
       ELSE pm' = [pm EXCEPT !.out_main = FALSE, !.mpc = "drain"]
    /\ UNCHANGED <<dbgVars, wb, bpt, lb, diff, dd, wt, up, pd>>

\* the output senders that are not dropped yet
OutSenders(p) ==
    {t \in Threads : p.wpc[t] \in {"recv", "have"}}
    \cup (IF p.out_main THEN {0} ELSE {})

\* the drain loop: output_receiver.recv() gives the next pair, or Err when
\* the channel is empty and every sender is dropped
PmDrain ==
    /\ pm.stage = "on" /\ pm.mpc = "drain"
    /\ IF pm.out_ch # <<>>
       THEN LET output_index == Head(pm.out_ch)[1]
                output_val   == Head(pm.out_ch)[2]
            IN  pm' = [pm EXCEPT !.out_ch = Tail(@),
                                 !.output_vec[output_index + 1] = output_val]
       ELSE /\ OutSenders(pm) = {}
            /\ pm' = [pm EXCEPT !.mpc = "done"]
    /\ UNCHANGED <<dbgVars, wb, bpt, lb, diff, dd, wt, up, pd>>

\* worker t: input_receiver.recv() gives the next pair, or Err when the
\* channel is empty and the sender is dropped, which ends the thread
PmWorkerRecv(t) ==
    /\ pm.stage = "on" /\ pm.wpc[t] = "recv"
    /\ IF pm.in_ch # <<>>
       THEN pm' = [pm EXCEPT !.in_ch = Tail(@), !.held[t] = Head(pm.in_ch),
                             !.wpc[t] = "have"]
       ELSE /\ ~pm.in_open
            /\ pm' = [pm EXCEPT !.wpc[t] = "exit"]
    /\ UNCHANGED <<dbgVars, wb, bpt, lb, diff, dd, wt, up, pd>>

\* worker t: output_sender.send((input_index, f(input_val)))
PmWorkerSend(t) ==
    /\ pm.stage = "on" /\ pm.wpc[t] = "have"
    /\ LET input_index == pm.held[t][1]
           input_val   == pm.held[t][2]
       IN  pm' = [pm EXCEPT !.out_ch = Append(@, <<input_index, f(input_val)>>),
                            !.applied[input_index] = @ + 1,
                            !.held[t] = <<>>,
                            !.wpc[t] = "recv"]
    /\ UNCHANGED <<dbgVars, wb, bpt, lb, diff, dd, wt, up, pd>>

NextPM ==
    \/ PmSpawn
    \/ PmSend
    \/ PmJoin
    \/ PmDrain
    \/ \E t \in Threads : PmWorkerRecv(t)
    \/ \E t \in Threads : PmWorkerSend(t)

SpecPM == InitPM /\ [][NextPM]_vars

\* C26: with at least one worker thread parallel_map returns a vector as
\* long as the input whose element i is f of the input's element i, and f
\* has been called exactly once for every element, whatever the
\* interleaving of the threads.
C26_ParallelMapResult ==
    /\ \A x \in DOMAIN pm.applied : pm.applied[x] <= 1
    /\ (pm.mpc = "done" /\ pm.num_threads >= 1) =>
          /\ Len(pm.output_vec) = Len(pm.input)
          /\ \A x \in 1..Len(pm.input) :
                /\ pm.output_vec[x] = f(pm.input[x])
                /\ pm.applied[x - 1] = 1

\* three elements have been mapped by two workers
C26_Witness ==
    /\ pm.mpc = "done"
    /\ pm.num_threads = 2
    /\ pm.input = <<6, 7, 8>>
    /\ pm.output_vec = <<36, 49, 64>>

\* the steps of the main thread, and those of worker t
PmMain == PmSpawn \/ PmSend \/ PmJoin \/ PmDrain

PmWorker(t) == PmWorkerRecv(t) \/ PmWorkerSend(t)

\* parallel_map under a fair scheduler: a thread that can take a step is
\* not held back for ever
SpecPMFair ==
    /\ InitPM /\ [][NextPM]_vars
    /\ WF_vars(PmMain)
    /\ \A t \in Threads : WF_vars(PmWorker(t))

\* every worker that was started has left its receive loop
WorkersEnded(p) == \A t \in Threads : p.wpc[t] \in {"none", "exit"}

\* C27: under fair scheduling parallel_map terminates for every input and
\* every number of threads, 0 included: once the input sender is dropped
\* every worker leaves its receive loop, the joins are complete before the
\* output channel is drained, and the drain loop ends.
C27_ParallelMapTerminates ==
    /\ <>(pm.mpc = "done")
    /\ (~pm.in_open) ~> WorkersEnded(pm)
    /\ [](pm.mpc \in {"drain", "done"} => WorkersEnded(pm))
    /\ [](pm.mpc = "done" => pm.out_ch = <<>>)

\* with no worker thread the call has returned the vector of defaults and
\* the three inputs are still in the input channel
C27_Witness ==
    /\ pm.mpc = "done"
    /\ pm.num_threads = 0
    /\ Len(pm.in_ch) = 3
    /\ pm.output_vec = <<Default, Default, Default>>

----------------------------------------------------------------------------
(* balancebeam (proj-2): connect_to_upstream, called by the one connection  *)
(* handled at a time, and the active_health_check task, which share         *)
(* activate_addresses under its mutex.  up.counter is activate_addresses.0, *)
(* up.flags is activate_addresses.1.  A block that takes the lock and has   *)
(* no await inside is one step, taken when the lock is free.                *)

\* the number of upstream servers
MaxUp == 2

Upstreams == 0..(MaxUp - 1)

\* the upstream at upstream_idx may be connected to
selectable_any(flags, upstream_idx) == TRUE

\* the test of line 146: the flag of the upstream selected
selectable(flags, upstream_idx) == flags[upstream_idx]

\* the block of lines 154-160 without its double check
mark_down_unchecked(p, upstream_idx) ==
    [p EXCEPT !.counter = @ - 1, !.flags[upstream_idx] = FALSE]

\* the block of lines 154-160: the upstream is marked down if it is not yet
mark_down(p, upstream_idx) ==
    IF p.flags[upstream_idx]
    THEN [p EXCEPT !.counter = @ - 1, !.flags[upstream_idx] = FALSE]
    ELSE p

\* the body of the loop of active_health_check after check_server returned
\* alive for ip_idx
mark_checked(p, ip_idx, alive) ==
    IF alive
    THEN IF ~p.flags[ip_idx]
         THEN [p EXCEPT !.counter = @ + 1, !.flags[ip_idx] = TRUE]
         ELSE p
    ELSE IF p.flags[ip_idx]
         THEN [p EXCEPT !.counter = @ - 1, !.flags[ip_idx] = FALSE]
         ELSE p

InitUP ==
    /\ DbgInit /\ wb = NoWb
    /\ bpt = NoBpt /\ lb = NoLb /\ diff = NoDiff /\ dd = NoDd
    /\ wt = NoWt /\ pm = NoPm /\ pd = NoPd
    /\ up = [stage |-> "on", counter |-> MaxUp, flags |-> [u \in Upstreams |-> TRUE],
             lock |-> "free", cpc |-> "idle", cidx |-> 0, res |-> "none",
             hpc |-> "lock", hidx |-> 0]

\* handle_connection calls connect_to_upstream
UpCall ==
    /\ up.stage = "on" /\ up.cpc = "idle"
    /\ up' = [up EXCEPT !.cpc = "select", !.res = "none"]
    /\ UNCHANGED <<dbgVars, wb, bpt, lb, diff, dd, wt, pm, pd>>

\* the first block of the loop of connect_to_upstream, with the index the
\* random generator gives
UpSelect(upstream_idx) ==
    /\ up.stage = "on" /\ up.cpc = "select"
    /\ up.lock = "free"
    /\ IF up.counter = 0
       THEN up' = [up EXCEPT !.cpc = "idle", !.res = "err"]
       ELSE IF ~selectable(up.flags, upstream_idx)
       THEN UNCHANGED up
       ELSE up' = [up EXCEPT !.cpc = "connect", !.cidx = upstream_idx]
    /\ UNCHANGED <<dbgVars, wb, bpt, lb, diff, dd, wt, pm, pd>>

\* TcpStream::connect(upstream_ip) returns
UpConnect(ok) ==
    /\ up.stage = "on" /\ up.cpc = "connect"
    /\ IF ok
       THEN up' = [up EXCEPT !.cpc = "idle", !.res = "ok"]
       ELSE up' = [up EXCEPT !.cpc = "failed"]
    /\ UNCHANGED <<dbgVars, wb, bpt, lb, diff, dd, wt, pm, pd>>

\* the block after a failed connect
UpMarkDown ==
    /\ up.stage = "on" /\ up.cpc = "failed"
    /\ up.lock = "free"
    /\ up' = [mark_down(up, up.cidx) EXCEPT !.cpc = "select"]
    /\ UNCHANGED <<dbgVars, wb, bpt, lb, diff, dd, wt, pm, pd>>

\* active_health_check takes the lock for the next ip_idx (after the delay,
\* for the first) and calls check_server with the lock held
UpHealthLock ==
    /\ up.stage = "on" /\ up.hpc = "lock"
    /\ up.lock = "free"
    /\ up' = [up EXCEPT !.lock = "health", !.hpc = "check"]
    /\ UNCHANGED <<dbgVars, wb, bpt, lb, diff, dd, wt, pm, pd>>

\* check_server returns alive: the flag and the counter are set and the
\* lock is released at the end of the iteration
UpHealthCheck(alive) ==
    /\ up.stage = "on" /\ up.hpc = "check"
    /\ up' = [mark_checked(up, up.hidx, alive) EXCEPT
                !.lock = "free", !.hpc = "lock",
                !.hidx = IF up.hidx + 1 \in Upstreams THEN up.hidx + 1 ELSE 0]
    /\ UNCHANGED <<dbgVars, wb, bpt, lb, diff, dd, wt, pm, pd>>

NextUP ==
    \/ UpCall
    \/ \E upstream_idx \in Upstreams : UpSelect(upstream_idx)
    \/ \E ok \in BOOLEAN : UpConnect(ok)
    \/ UpMarkDown
    \/ UpHealthLock
    \/ \E alive \in BOOLEAN : UpHealthCheck(alive)

SpecUP == InitUP /\ [][NextUP]_vars

\* C28: the active counter is the number of flags that are true, and lies
\* between 0 and the number of upstreams, in every state and under every
\* interleaving of connect_to_upstream and the health check.
C28_CounterMatchesFlags ==
    /\ up.counter = Cardinality({u \in Upstreams : up.flags[u]})
    /\ up.counter >= 0
    /\ up.counter <= MaxUp

\* a connect to an upstream has failed and the health check has marked that
\* upstream down before connect_to_upstream does
C28_Witness ==
    /\ up.cpc = "failed"
    /\ ~up.flags[up.cidx]
    /\ up.counter = MaxUp - 1
    /\ up.lock = "free"

\* C29: connect_to_upstream returns the error that all upstreams are down
\* only when it has found the counter 0, connects only to an upstream whose
\* flag it has found true, and after a failed connect marks that upstream,
\* and no other, inactive before it selects again.
C29_ConnectToUpstream ==
    [][ /\ (up.cpc = "select" /\ up'.cpc = "idle") =>
              (up'.res = "err" /\ up.counter = 0 /\ up.lock = "free")
        /\ (up.cpc # "connect" /\ up'.cpc = "connect") =>
              (up.cpc = "select" /\ up.counter > 0 /\ up.flags[up'.cidx])
        /\ (up.cpc = "connect" /\ up'.cpc = "idle") => up'.res = "ok"
        /\ (up.cpc = "failed" /\ up'.cpc # "failed") =>
              /\ up'.cpc = "select"
              /\ ~up'.flags[up.cidx]
              /\ \A u \in Upstreams \ {up.cidx} : up'.flags[u] = up.flags[u]
      ]_vars

\* connect_to_upstream has returned the error with every upstream down
C29_Witness ==
    /\ up.cpc = "idle"
    /\ up.res = "err"
    /\ up.counter = 0
    /\ \A u \in Upstreams : ~up.flags[u]

----------------------------------------------------------------------------
(* rdiff (week2): print_diff, called by main with the table of lcs and      *)
(* (i, j) = (seq1.len(), seq2.len()).  A step is one call on the way down;  *)
(* pd.pending holds the lines the callers print after their call returns,   *)
(* in the order of printing, pd.v1 and pd.v2 the lines of lines1 and lines2 *)
(* a call has printed or will print.                                        *)

\* the builds of the program: with and without the checks of overflow
Builds == {"debug", "release"}

InitPD ==
    /\ DbgInit /\ wb = NoWb
    /\ bpt = NoBpt /\ lb = NoLb /\ diff = NoDiff /\ dd = NoDd
    /\ wt = NoWt /\ pm = NoPm /\ up = NoUp
    /\ pd \in {[stage |-> "on", build |-> b, lines1 |-> s1, lines2 |-> s2,
                lcs_table |-> lcs(s1, s2), i |-> Len(s1), j |-> Len(s2),
                pc |-> "call", pending |-> <<>>, out |-> <<>>,
                v1 |-> {}, v2 |-> {}] :
                 b \in Builds, s1 \in LcsInputs, s2 \in LcsInputs}

\* the test of the first branch
PdFirst(p) ==
    p.i > 0 /\ p.j > 0 /\ p.lines1[p.i] = p.lines2[p.j]

\* the test of the second branch
PdSecond(p) ==
    p.j > 0 /\ (p.i = 0 \/ Grid_get(p.lcs_table, p.i, p.j - 1)
                             >= Grid_get(p.lcs_table, p.i - 1, p.j))

\* the test of the third branch
PdThird(p) ==
    p.i > 0 /\ (p.j = 0 \/ Grid_get(p.lcs_table, p.i, p.j - 1)
                             <= Grid_get(p.lcs_table, p.i - 1, p.j))

\* first branch: print_diff(i - 1, j - 1), then the common line
PdCommon ==
    /\ pd.stage = "on" /\ pd.pc = "call"
    /\ PdFirst(pd)
    /\ pd' = [pd EXCEPT !.i = @ - 1, !.j = @ - 1,
                        !.pending = <<<<" ", pd.lines1[pd.i]>>>> \o @,
                        !.v1 = @ \cup {pd.i}, !.v2 = @ \cup {pd.j}]
    /\ UNCHANGED <<dbgVars, wb, bpt, lb, diff, dd, wt, pm, up>>

\* second branch: print_diff(i, j - 1), then the line of lines2
PdSecondBranch ==
    /\ pd.stage = "on" /\ pd.pc = "call"
    /\ ~PdFirst(pd) /\ PdSecond(pd)
    /\ pd' = [pd EXCEPT !.j = @ - 1,
                        !.pending = <<<<">", pd.lines2[pd.j]>>>> \o @,
                        !.v2 = @ \cup {pd.j}]
    /\ UNCHANGED <<dbgVars, wb, bpt, lb, diff, dd, wt, pm, up>>

\* third branch: print_diff(i, j - 1), then the line of lines1.  With j = 0
\* the subtraction overflows: the debug build panics, the release build
\* calls with j = usize::MAX (pc "wrapped"; pd.j is left at 0)
PdThirdBranch ==
    /\ pd.stage = "on" /\ pd.pc = "call"
    /\ ~PdFirst(pd) /\ ~PdSecond(pd) /\ PdThird(pd)
    /\ IF pd.j > 0
       THEN pd' = [pd EXCEPT !.j = @ - 1,
                             !.pending = <<<<">", pd.lines1[pd.i]>>>> \o @,
                             !.v1 = @ \cup {pd.i}]
       ELSE IF pd.build = "debug"
       THEN pd' = [pd EXCEPT !.pc = "panic"]
       ELSE pd' = [pd EXCEPT !.pc = "wrapped",
                             !.pending = <<<<">", pd.lines1[pd.i]>>>> \o @,
                             !.v1 = @ \cup {pd.i}]
    /\ UNCHANGED <<dbgVars, wb, bpt, lb, diff, dd, wt, pm, up>>

\* the call with i > 0 and j = usize::MAX: the first test reads
\* lines2[j - 1], which is out of bounds, and panics
PdWrappedCall ==
    /\ pd.stage = "on" /\ pd.pc = "wrapped"
    /\ pd.i > 0
    /\ pd' = [pd EXCEPT !.pc = "panic"]
    /\ UNCHANGED <<dbgVars, wb, bpt, lb, diff, dd, wt, pm, up>>

\* last branch: the empty line is printed, the callers print theirs
PdLast ==
    /\ pd.stage = "on" /\ pd.pc = "call"
    /\ ~PdFirst(pd) /\ ~PdSecond(pd) /\ ~PdThird(pd)
    /\ pd' = [pd EXCEPT !.pc = "done", !.out = <<<<"", "">>>> \o pd.pending]
    /\ UNCHANGED <<dbgVars, wb, bpt, lb, diff, dd, wt, pm, up>>

NextPD ==
    \/ PdCommon
    \/ PdSecondBranch
    \/ PdThirdBranch
    \/ PdWrappedCall
    \/ PdLast

SpecPD == InitPD /\ [][NextPD]_vars

\* C30: print_diff ends: no call decrements an index that is 0 (no overflow
\* of j - 1, hence no panic), and when the recursion has ended it is at
\* (0, 0) with every line of lines1 and of lines2 visited.
C30_PrintDiffTerminates ==
    /\ pd.pc \notin {"panic", "wrapped"}
    /\ pd.pc = "done" =>
          /\ pd.i = 0 /\ pd.j = 0
          /\ pd.v1 = 1..Len(pd.lines1)
          /\ pd.v2 = 1..Len(pd.lines2)


====
